---- MODULE Spec2Model ----
(***************************************************************************)
(* SQLite Viewer (src/sqlite_viewer.py): the table source adapter          *)
(* (DatabaseConnection), the view pipeline (filter -> sort -> paginate)    *)
(* and the load coordinator of the frame (SQLiteViewer.load_table_data and *)
(* the event handlers that call it).                                       *)
(*                                                                         *)
(* Python values are represented as follows.  A str that is searched or    *)
(* shown is a sequence of one-character strings; a name (file, table,      *)
(* column) is a TLA+ string.  None is NoneStr for a name and NoneText for   *)
(* a text.  A cell is a record [kind, num, txt]; a DataFrame is a record   *)
(* [columns, rows], each row carrying its index label.                     *)
(***************************************************************************)
EXTENDS Integers, Sequences, FiniteSets, TLC

VARIABLES
    db,               \* self.db: the file of the open DatabaseConnection, or None
    table_switcher,   \* the wx.Choice: its items and its selected string
    current_page,     \* self.current_page
    total_pages,      \* self.total_pages
    sort_column,      \* self.sort_column
    sort_order,       \* self.sort_order
    search_query,     \* self.search_query
    items_per_page,   \* self.items_per_page
    list_ctrl,        \* the wx.ListCtrl: its columns and its rows of text
    next_page_button, \* whether the "Next page" button is enabled
    sort_indicator,   \* the sort indicator of the list: none, or column and direction
    status,           \* the status bar text
    column_attr,      \* self.column_attr
    loads,            \* the worker threads that are alive, oldest first
    callq,            \* the wx.CallAfter calls posted and not yet run, oldest first
    applied,          \* history: whose result the frame took last
    overlaps,         \* history: the loads requested while another was in flight
    open_outcome,     \* history: how the last load_database_file call ended
    pipe,             \* the pipeline on its own (PipeSpec)
    cache,            \* the two lru_cache memos and the threads calling them (CacheSpec)
    clip              \* the list, its selection and the clipboard (CopySpec)

view_state == <<current_page, total_pages, sort_column, sort_order, search_query,
                items_per_page>>

widgets == <<table_switcher, list_ctrl, next_page_button, sort_indicator, status>>

frame == <<db, view_state, widgets, column_attr, loads, callq, applied, overlaps,
           open_outcome>>

\* what the frame's handlers and workers leave alone
sides == <<pipe, cache, clip>>

vars == <<frame, sides>>

(***************************************************************************)
(* Python values                                                           *)
(***************************************************************************)
NoneStr == "None"

NoneText == <<"None">>

Min(a, b) == IF a < b THEN a ELSE b

\* str.upper() on the characters the model uses
Upper(c) ==
    CASE c = "a" -> "A"
      [] c = "b" -> "B"
      [] c = "c" -> "C"
      [] OTHER -> c

UpperText(t) == [i \in 1..Len(t) |-> Upper(t[i])]

\* ord(c): the code point order of the characters the model uses
Ord(c) ==
    CASE c = "0" -> 48 [] c = "1" -> 49 [] c = "2" -> 50 [] c = "3" -> 51
      [] c = "4" -> 52 [] c = "5" -> 53 [] c = "6" -> 54 [] c = "7" -> 55
      [] c = "8" -> 56 [] c = "9" -> 57
      [] c = "A" -> 65 [] c = "B" -> 66 [] c = "C" -> 67
      [] c = "a" -> 97 [] c = "b" -> 98 [] c = "c" -> 99
      [] OTHER -> 122

DigitChar(d) ==
    CASE d = 0 -> "0" [] d = 1 -> "1" [] d = 2 -> "2" [] d = 3 -> "3"
      [] d = 4 -> "4" [] d = 5 -> "5" [] d = 6 -> "6" [] d = 7 -> "7"
      [] d = 8 -> "8" [] OTHER -> "9"

RECURSIVE Digits(_)
Digits(n) ==
    IF n < 10 THEN <<DigitChar(n)>>
    ELSE Digits(n \div 10) \o <<DigitChar(n % 10)>>

IntCell(n) == [kind |-> "int", num |-> n, txt |-> <<>>]

StrCell(t) == [kind |-> "str", num |-> 0, txt |-> t]

\* str(cell), as DataFrame.astype(str) and display_table apply it
Str(cell) == IF cell.kind = "int" THEN Digits(cell.num) ELSE cell.txt

\* Python's `pat in x` on str
In(pat, x) ==
    \E k \in 0..(Len(x) - Len(pat)) : SubSeq(x, k + 1, k + Len(pat)) = pat

StrContainsCase(x, pat) == In(pat, x)

\* Series.str.contains(pat, case=False, regex=False): pat.upper() in x.upper()
StrContains(x, pat) == In(UpperText(pat), UpperText(x))

\* Python's seq[start:stop] for 0 <= start, 0 <= stop
Slice(s, start, stop) == SubSeq(s, Min(start, Len(s)) + 1, Min(stop, Len(s)))

\* Python's truthiness of an Optional[str]
TruthyText(q) == q # NoneText /\ q # <<>>

TruthyName(c) == c # NoneStr

RECURSIVE TextLess(_, _)
TextLess(s, t) ==
    IF t = <<>> THEN FALSE
    ELSE IF s = <<>> THEN TRUE
    ELSE IF Ord(Head(s)) # Ord(Head(t)) THEN Ord(Head(s)) < Ord(Head(t))
    ELSE TextLess(Tail(s), Tail(t))

\* the native order of two cells of one column
CellLess(x, y) ==
    IF x.kind = "int" THEN x.num < y.num ELSE TextLess(x.txt, y.txt)

(***************************************************************************)
(* View pipeline: get_filtered_sorted_df and the page slice                *)
(***************************************************************************)
ColumnIndex(columns, name) == CHOOSE j \in 1..Len(columns) : columns[j] = name

HasColumn(columns, name) == \E j \in 1..Len(columns) : columns[j] = name

\* df[df.astype(str).apply(... str.contains ...).any(axis=1)]
FilterRows(df, query) ==
    [df EXCEPT !.rows = SelectSeq(df.rows,
        LAMBDA r : \E j \in 1..Len(r.cells) : StrContains(Str(r.cells[j]), query))]

\* ndarray.argsort(kind="quicksort"): positions in ascending key order; the
\* order of positions with equal keys is whatever the unstable sort leaves.
RECURSIVE ArgsortFrom(_, _)
ArgsortFrom(keys, rem) ==
    IF rem = {} THEN {<<>>}
    ELSE UNION { { <<i>> \o s : s \in ArgsortFrom(keys, rem \ {i}) } :
                 i \in { j \in rem : \A m \in rem : ~CellLess(keys[m], keys[j]) } }

Argsort(keys) == ArgsortFrom(keys, 1..Len(keys))

Reverse(s) == [i \in 1..Len(s) |-> s[Len(s) + 1 - i]]

\* pandas nargsort: descending reverses the items, sorts, reverses the indexer
Nargsort(keys, ascending) ==
    IF ascending THEN Argsort(keys)
    ELSE { Reverse([i \in 1..Len(ix) |-> Len(keys) + 1 - ix[i]]) :
           ix \in Argsort(Reverse(keys)) }

\* df.sort_values(by=sort_column, ascending=sort_order): the possible results
SortValues(df, by, ascending) ==
    LET c == ColumnIndex(df.columns, by)
        keys == [i \in 1..Len(df.rows) |-> df.rows[i].cells[c]]
    IN { [df EXCEPT !.rows = [i \in 1..Len(ix) |-> df.rows[ix[i]]]] :
         ix \in Nargsort(keys, ascending) }

\* get_filtered_sorted_df on a table that was read: the possible outcomes,
\* [exc |-> "none", df |-> ...] or the exception raised
FilteredSorted(df, by, ascending, query) ==
    LET f == IF TruthyText(query) THEN FilterRows(df, query) ELSE df
    IN IF ~TruthyName(by) THEN { [exc |-> "none", df |-> f] }
       ELSE IF ~HasColumn(f.columns, by) THEN { [exc |-> "KeyError", df |-> f] }
       ELSE { [exc |-> "none", df |-> s] : s \in SortValues(f, by, ascending) }

PageOffsetNext(page_number, page_size) == page_number * page_size

\* offset = (page_number - 1) * page_size
PageOffset(page_number, page_size) == (page_number - 1) * page_size

\* df.iloc[offset:offset+page_size]
PageRows(rows, page_number, page_size) ==
    Slice(rows, PageOffset(page_number, page_size),
          PageOffset(page_number, page_size) + page_size)

\* math.ceil(total_rows / page_size)
TotalPages(total_rows, page_size) == (total_rows + page_size - 1) \div page_size

(***************************************************************************)
(* The files the user can open                                             *)
(***************************************************************************)
\* "shop.db": tables A (11 rows, columns k and v), B (3 rows, column k) and
\* E, whose SELECT fails in the database (pandas DatabaseError).
\* "latin1.csv": a CSV file that is not UTF-8, so both read_csv attempts of
\* _get_csv_dataframe raise UnicodeDecodeError.
Files == { "shop.db", "latin1.csv" }

\* "empty.db": a database without tables.  "broken.db": not a database, the
\* query of sqlite_master fails (pandas DatabaseError).  "DATA.CSV": a CSV
\* file whose extension is written in capitals.
OpenFiles == Files \cup { "empty.db", "broken.db", "DATA.CSV" }

\* path.splitext(db_file)[1]
FileType(f) ==
    CASE f \in { "shop.db", "empty.db", "broken.db" } -> ".db"
      [] f = "latin1.csv" -> ".csv"
      [] OTHER -> ".CSV"

SqliteTypes == { ".db", ".db3", ".sqlite", ".sqlite3" }

Frame(columns, cells) ==
    [columns |-> columns,
     rows |-> [i \in 1..Len(cells) |-> [idx |-> i, cells |-> cells[i]]]]

TableA ==
    Frame(<<"k", "v">>,
          [i \in 1..11 |-> <<IntCell(i),
                             StrCell(<<(IF i <= 6 THEN "a" ELSE "b"), DigitChar(i % 10)>>)>>])

TableB == Frame(<<"k">>, [i \in 1..3 |-> <<IntCell(i)>>])

EmptyFrame == Frame(<<>>, <<>>)

\* the file types get_table_or_sheet_names and get_df know
Supported(f) == FileType(f) \in SqliteTypes \cup { ".xlsx", ".csv" }

\* _get_sqlite_table_names / the fixed name of a CSV file
TableNames(f) ==
    IF FileType(f) \in SqliteTypes
    THEN (IF f = "shop.db" THEN <<"A", "B", "E">> ELSE <<>>)
    ELSE <<"CSV file">>

\* get_table_or_sheet_names: the exception it raises, if any
TableNamesExc(f) ==
    IF ~Supported(f) THEN "ValueError"
    ELSE IF f = "broken.db" THEN "DatabaseError"
    ELSE "none"

\* _get_sqlite_dataframe: SELECT * FROM {table_name}
SqliteDataframe(f, table_name) ==
    CASE table_name = "A" -> [exc |-> "none", df |-> TableA]
      [] table_name = "B" -> [exc |-> "none", df |-> TableB]
      [] OTHER -> [exc |-> "DatabaseError", df |-> EmptyFrame]

\* _get_csv_dataframe: the first read_csv raises UnicodeDecodeError (a
\* ValueError), the retry with sep=";" raises it again
CsvDataframe(f) == [exc |-> "UnicodeDecodeError", df |-> EmptyFrame]

\* DatabaseConnection.get_df
GetDf(f, table_name) ==
    IF FileType(f) \in SqliteTypes THEN SqliteDataframe(f, table_name)
    ELSE CsvDataframe(f)

\* DatabaseConnection.get_filtered_sorted_df: the possible outcomes
GetFilteredSortedDf(f, table_name, sortcol, sortord, query) ==
    LET t == GetDf(f, table_name)
    IN IF t.exc # "none" THEN { t }
       ELSE FilteredSorted(t.df, sortcol, sortord, query)

(***************************************************************************)
(* The frame (SQLiteViewer)                                                *)
(***************************************************************************)
MaxInFlight == 2

MaxOverlaps == 1

ItemsPerPageDefault == 250

PageSizeOptions == { 5, 250 }

SearchTexts == { <<"a">> }

NonePage == 0

NoResult == [columns |-> <<>>, rows |-> <<>>, total_rows |-> 0]

PipeOff ==
    [stage |-> "off", df |-> EmptyFrame, sort_column |-> NoneStr, sort_order |-> FALSE,
     search_query |-> NoneText, page_size |-> 1,
     view |-> <<>>, page_number |-> 0, page |-> <<>>, pages |-> <<>>]

\* the thread slots of CacheSpec
MaxCacheThreads == 2

\* functools.lru_cache(maxsize=1)
Maxsize == 1

NoKey == [file |-> NoneStr, table_name |-> NoneStr, sort_column |-> NoneStr,
          sort_order |-> FALSE, search_query |-> NoneText]

IdleThread == [pc |-> "idle", key |-> NoKey, df |-> EmptyFrame, out |-> EmptyFrame,
               exc |-> "none", via |-> "none"]

\* both memos empty, no thread started, nothing selected
CacheStart ==
    [df |-> <<>>, view |-> <<>>, selection |-> NoneStr,
     threads |-> [t \in 1..MaxCacheThreads |-> IdleThread]]

ClipOff == [stage |-> "off"]

NoIndicator == [col |-> NoneStr, ascending |-> FALSE]

\* SQLiteViewer.__init__ and create_dashboard
FrameInit ==
    /\ db = NoneStr
    /\ table_switcher = [items |-> <<"No database loaded">>,
                         selection |-> "No database loaded"]
    /\ current_page = NonePage
    /\ total_pages = 0
    /\ sort_column = NoneStr
    /\ sort_order = FALSE
    /\ search_query = NoneText
    /\ items_per_page = ItemsPerPageDefault
    /\ list_ctrl = [columns |-> <<>>, rows |-> <<>>]
    /\ next_page_button = FALSE
    /\ sort_indicator = NoIndicator
    /\ status = ""
    /\ column_attr = [current_table |-> NoneStr, tables |-> << >>]
    /\ loads = <<>>
    /\ callq = <<>>
    /\ applied = "none"
    /\ open_outcome = "none"

Init == FrameInit /\ overlaps = 0 /\ pipe = PipeOff /\ cache = CacheStart /\ clip = ClipOff

InFlight == Len(loads) + Len(callq)

Supersede(q) == [i \in 1..Len(q) |-> [q[i] EXCEPT !.superseded = TRUE]]

\* save_column_attr on the dict attr: the dict after the call
SaveColumnAttr(attr, selection) ==
    LET previous_table == attr.current_table
        saved == [col_order |-> list_ctrl.columns # <<>>, col_widths |-> list_ctrl.columns]
    IN [current_table |-> selection,
        tables |-> IF previous_table # NoneStr
                   THEN [t \in (DOMAIN attr.tables) \cup {previous_table} |->
                            IF t = previous_table THEN saved ELSE attr.tables[t]]
                   ELSE attr.tables]

\* load_table_data: save_column_attr(), then the worker thread is started.
\* attr is self.column_attr when the call is made, selection the switcher's.
LoadTableData(attr, selection, table_name, page_number, page_size, sortcol, sortord, query, set_status) ==
    /\ InFlight < MaxInFlight
    /\ InFlight > 0 => overlaps < MaxOverlaps
    /\ overlaps' = IF InFlight > 0 THEN overlaps + 1 ELSE overlaps
    /\ column_attr' = SaveColumnAttr(attr, selection)
    /\ loads' = Append(Supersede(loads),
                       [table_name |-> table_name, page_number |-> page_number,
                        page_size |-> page_size, sort_column |-> sortcol,
                        sort_order |-> sortord, search_query |-> query,
                        set_status |-> set_status, pc |-> "started",
                        superseded |-> FALSE, result |-> NoResult])
    /\ callq' = Supersede(callq)

ResetStateKeepsSearch ==
    /\ status' = "Processing..."
    /\ UNCHANGED search_query
    /\ current_page' = 1
    /\ total_pages' = 0
    /\ sort_column' = NoneStr
    /\ sort_order' = FALSE

\* reset_state
ResetState ==
    /\ status' = "Processing..."
    /\ search_query' = NoneText
    /\ current_page' = 1
    /\ total_pages' = 0
    /\ sort_column' = NoneStr
    /\ sort_order' = FALSE

OpenFailureForgetsDb(outcome) ==
    /\ open_outcome' = outcome
    /\ db' = NoneStr
    /\ UNCHANGED <<view_state, widgets, column_attr, loads, callq, applied, overlaps,
                   sides>>

\* load_database_file ends before self.db is assigned: with a message box and
\* return, or with an exception it does not catch
OpenFailure(outcome) ==
    /\ open_outcome' = outcome
    /\ UNCHANGED <<db, view_state, widgets, column_attr, loads, callq, applied, overlaps,
                   sides>>

\* load_database_file
OnOpen(f) ==
    IF TableNamesExc(f) = "DatabaseError" THEN OpenFailure("Error opening database")
    ELSE IF TableNamesExc(f) # "none" THEN OpenFailure(TableNamesExc(f))
    ELSE IF TableNames(f) = <<>> THEN OpenFailure("No tables found in database")
    ELSE /\ db' = f
         /\ open_outcome' = "opened"
         /\ table_switcher' = [items |-> TableNames(f), selection |-> TableNames(f)[1]]
         /\ ResetState
         /\ LoadTableData([current_table |-> NoneStr, tables |-> << >>], TableNames(f)[1],
                          TableNames(f)[1], 1, items_per_page, NoneStr, FALSE, NoneText,
                          TRUE)
         /\ UNCHANGED <<items_per_page, list_ctrl, next_page_button, sort_indicator,
                        applied, sides>>

\* on_switch_table, after the user picked item t of the switcher
OnSwitchTable(t) ==
    /\ \E i \in 1..Len(table_switcher.items) : table_switcher.items[i] = t
    /\ db # NoneStr
    /\ table_switcher' = [table_switcher EXCEPT !.selection = t]
    /\ ResetState
    /\ LoadTableData(column_attr, t, t, 1, items_per_page, NoneStr, FALSE, NoneText, TRUE)
    /\ UNCHANGED <<db, items_per_page, list_ctrl, next_page_button, sort_indicator, applied, open_outcome,
                   sides>>

SortAfterClickNeverCleared(column) ==
    IF sort_column = column
    THEN [sort_column |-> column, sort_order |-> ~sort_order]
    ELSE [sort_column |-> column, sort_order |-> TRUE]

\* on_column_click: the sort a click on the header of `column` leaves
SortAfterClick(column) ==
    IF sort_column = column
    THEN [sort_column |-> IF ~sort_order THEN NoneStr ELSE sort_column,
          sort_order |-> FALSE]
    ELSE [sort_column |-> column, sort_order |-> TRUE]

\* on_column_click on the header of column c of the list
OnColumnClick(c) ==
    /\ HasColumn(list_ctrl.columns, c)
    /\ LET s == SortAfterClick(c)
       IN /\ sort_column' = s.sort_column
          /\ sort_order' = s.sort_order
          /\ current_page' = 1
          /\ LoadTableData(column_attr, table_switcher.selection,
                           table_switcher.selection, 1, items_per_page,
                           s.sort_column, s.sort_order, search_query, FALSE)
          /\ status' = IF s.sort_column # NoneStr THEN "Sorted table by column"
                        ELSE "Restored original table order"
    /\ UNCHANGED <<db, table_switcher, total_pages, search_query, items_per_page,
                   list_ctrl, next_page_button, sort_indicator, applied, open_outcome,
                   sides>>

\* on_search with text q in the search control
OnSearch(q) ==
    /\ db # NoneStr
    /\ TruthyText(q)
    /\ current_page' = 1
    /\ search_query' = q
    /\ LoadTableData(column_attr, table_switcher.selection, table_switcher.selection,
                     1, items_per_page, sort_column, sort_order, q, TRUE)
    /\ UNCHANGED <<db, table_switcher, total_pages, sort_column, sort_order,
                   items_per_page, list_ctrl, next_page_button, sort_indicator, status, applied, open_outcome,
                   sides>>

OnSearchCancelClearsSort ==
    /\ db # NoneStr
    /\ search_query' = NoneText
    /\ current_page' = 1
    /\ sort_column' = NoneStr
    /\ sort_order' = FALSE
    /\ LoadTableData(column_attr, table_switcher.selection, table_switcher.selection,
                     1, items_per_page, NoneStr, FALSE, NoneText, TRUE)
    /\ UNCHANGED <<db, table_switcher, total_pages, items_per_page, list_ctrl,
                   next_page_button, sort_indicator, status, applied, open_outcome,
                   sides>>

\* on_search_cancel
OnSearchCancel ==
    /\ db # NoneStr
    /\ search_query' = NoneText
    /\ current_page' = 1
    /\ LoadTableData(column_attr, table_switcher.selection, table_switcher.selection,
                     1, items_per_page, sort_column, sort_order, NoneText, TRUE)
    /\ UNCHANGED <<db, table_switcher, total_pages, sort_column, sort_order,
                   items_per_page, list_ctrl, next_page_button, sort_indicator, status, applied, open_outcome,
                   sides>>

\* on_set_items_per_page with the menu item of n items per page
OnSetItemsPerPage(n) ==
    /\ items_per_page' = n
    /\ IF db # NoneStr
       THEN /\ current_page' = 1
            /\ LoadTableData(column_attr, table_switcher.selection,
                             table_switcher.selection, 1, n, sort_column, sort_order,
                             search_query, TRUE)
       ELSE /\ items_per_page # n
            /\ UNCHANGED <<current_page, column_attr, loads, callq, overlaps>>
    /\ UNCHANGED <<db, table_switcher, total_pages, sort_column, sort_order,
                   search_query, list_ctrl, next_page_button, sort_indicator, status, applied, open_outcome,
                   sides>>

NextPageNumberNoWrap(page, pages, backward) ==
    IF backward THEN page - 1 ELSE page + 1

\* the page on_page_change moves to
NextPageNumber(page, pages, backward) ==
    ((IF backward THEN page - 2 ELSE page) % pages) + 1

\* on_page_change from the menu (wx.ID_BACKWARD, wx.ID_FORWARD) or the button
OnPageChange(backward) ==
    /\ db # NoneStr
    /\ total_pages > 1
    /\ current_page' = NextPageNumber(current_page, total_pages, backward)
    /\ LoadTableData(column_attr, table_switcher.selection, table_switcher.selection,
                     current_page', items_per_page, sort_column, sort_order,
                     search_query, TRUE)
    /\ UNCHANGED <<db, table_switcher, total_pages, sort_column, sort_order,
                   search_query, items_per_page, list_ctrl, next_page_button, sort_indicator, status,
                   applied, open_outcome,
                   sides>>

Without(q, i) == [j \in 1..(Len(q) - 1) |-> IF j < i THEN q[j] ELSE q[j + 1]]

\* the title of the wx.MessageBox (wx.OK | wx.ICON_ERROR) the worker posts
BoxTitle(kind) ==
    CASE kind = "error" -> "Error"
      [] kind = "no data" -> "Error displaying table"
      [] OTHER -> "none"

\* what the worker hands to wx.CallAfter
Calls(l, kind, columns, rows, pages) ==
    [kind |-> kind, box |-> BoxTitle(kind), table_name |-> l.table_name,
     set_status |-> l.set_status,
     page_number |-> l.page_number, total_pages |-> pages,
     columns |-> columns, rows |-> rows, superseded |-> l.superseded]

\* ShowSortIndicator(col, ascending) if sort_column else RemoveSortIndicator()
SortIndicator(sortcol, sortord) ==
    IF TruthyName(sortcol) THEN [col |-> sortcol, ascending |-> sortord] ELSE NoIndicator

\* _worker up to the test of rows: the view is computed on the connection
\* self.db names now and the page is cut from it.  A DatabaseError is caught
\* and reported; any other exception is not caught and ends the thread; a
\* page without rows is reported as "No data found".  The sort indicator of the
\* list is set from the worker thread at the end of the try block.
WorkerCompute(i) ==
    /\ i \in 1..Len(loads)
    /\ loads[i].pc = "started"
    /\ \E r \in GetFilteredSortedDf(db, loads[i].table_name, loads[i].sort_column,
                                    loads[i].sort_order, loads[i].search_query) :
        LET l == loads[i]
            page == PageRows(r.df.rows, l.page_number, l.page_size)
            rows == [n \in 1..Len(page) |-> page[n].cells]
        IN /\ sort_indicator' = IF r.exc # "none" THEN sort_indicator
                                ELSE SortIndicator(l.sort_column, l.sort_order)
           /\ IF r.exc = "DatabaseError"
              THEN /\ loads' = Without(loads, i)
                   /\ callq' = Append(callq, Calls(l, "error", <<>>, <<>>, 0))
              ELSE IF r.exc # "none"
              THEN /\ loads' = Without(loads, i)
                   /\ UNCHANGED callq
              ELSE IF rows = <<>>
              THEN /\ loads' = Without(loads, i)
                   /\ callq' = Append(callq, Calls(l, "no data", <<>>, <<>>, 0))
              ELSE /\ loads' = [loads EXCEPT ![i].pc = "computed",
                                   ![i].result = [columns |-> r.df.columns, rows |-> rows,
                                                  total_rows |-> Len(r.df.rows)]]
                   /\ UNCHANGED callq
    /\ UNCHANGED <<db, view_state, table_switcher, list_ctrl, next_page_button, status,
                   column_attr, applied, overlaps, open_outcome,
                   sides>>

\* _worker from "self.total_pages = ..." on: total_pages and the button are
\* set from the worker thread, the display and the status text are posted
WorkerPost(i) ==
    /\ i \in 1..Len(loads)
    /\ loads[i].pc = "computed"
    /\ LET l == loads[i]
           pages == TotalPages(l.result.total_rows, l.page_size)
       IN /\ total_pages' = pages
          /\ next_page_button' = (pages > 1)
          /\ callq' = Append(callq, Calls(l, "display", l.result.columns,
                                          l.result.rows, pages))
          /\ applied' = IF l.superseded THEN "superseded total_pages" ELSE applied
    /\ loads' = Without(loads, i)
    /\ UNCHANGED <<db, table_switcher, current_page, sort_column, sort_order,
                   search_query, items_per_page, list_ctrl, sort_indicator, status,
                   column_attr, overlaps, open_outcome,
                   sides>>

\* display_table: the texts the list shows
RowTexts(rows) == [i \in 1..Len(rows) |-> [j \in 1..Len(rows[i]) |-> Str(rows[i][j])]]

\* the event loop runs the calls one worker posted
RunCalls ==
    /\ callq # <<>>
    /\ LET c == Head(callq)
       IN /\ IF c.kind = "display"
             THEN /\ list_ctrl' = [columns |-> c.columns, rows |-> RowTexts(c.rows)]
                  /\ status' = IF c.set_status THEN "Showing table" ELSE status
                  /\ UNCHANGED next_page_button
             ELSE /\ list_ctrl' = [columns |-> <<>>, rows |-> <<>>]
                  /\ next_page_button' = FALSE
                  /\ status' = IF c.kind = "error" THEN "Error opening table"
                               ELSE "No data found in table"
          /\ applied' = IF c.superseded THEN "superseded calls" ELSE "latest calls"
    /\ callq' = Tail(callq)
    /\ UNCHANGED <<db, table_switcher, view_state, sort_indicator, column_attr, loads,
                   overlaps, open_outcome,
                   sides>>

AllTables == { "A", "B", "E", "CSV file" }

AllColumns == { "k", "v" }

Next ==
    \/ \E f \in Files : OnOpen(f)
    \/ \E t \in AllTables : OnSwitchTable(t)
    \/ \E c \in AllColumns : OnColumnClick(c)
    \/ \E q \in SearchTexts : OnSearch(q)
    \/ OnSearchCancel
    \/ \E n \in PageSizeOptions : OnSetItemsPerPage(n)
    \/ \E b \in BOOLEAN : OnPageChange(b)
    \/ \E i \in 1..MaxInFlight : WorkerCompute(i)
    \/ \E i \in 1..MaxInFlight : WorkerPost(i)
    \/ RunCalls

Spec == Init /\ [][Next]_vars

\* The frame with every kind of file behind the Open dialog, one load at a
\* time: the count of overlapping loads starts at its bound.
OpenInit ==
    FrameInit /\ overlaps = MaxOverlaps /\ pipe = PipeOff /\ cache = CacheStart
        /\ clip = ClipOff

OpenNext ==
    \/ \E f \in OpenFiles : OnOpen(f)
    \/ \E t \in AllTables : OnSwitchTable(t)
    \/ \E c \in AllColumns : OnColumnClick(c)
    \/ \E q \in SearchTexts : OnSearch(q)
    \/ OnSearchCancel
    \/ \E n \in PageSizeOptions : OnSetItemsPerPage(n)
    \/ \E b \in BOOLEAN : OnPageChange(b)
    \/ \E i \in 1..MaxInFlight : WorkerCompute(i)
    \/ \E i \in 1..MaxInFlight : WorkerPost(i)
    \/ RunCalls

OpenSpec == OpenInit /\ [][OpenNext]_vars

(***************************************************************************)
(* Claims about the frame                                                  *)
(***************************************************************************)
Max(a, b) == IF a > b THEN a ELSE b

\* C1: the result of a load request that a later request superseded while it
\* was in flight is never applied to the frame (rows, columns, status text,
\* total_pages): only the latest request's result is.
C1_OnlyLatestResultApplied ==
    applied \notin { "superseded calls", "superseded total_pages" }

\* C2: while a source is open, current_page is in 1..max(total_pages, 1).
C2_CurrentPageInRange ==
    db # NoneStr => current_page \in 1..Max(total_pages, 1)

\* the try block of load i raises
Raises(i) ==
    \E r \in GetFilteredSortedDf(db, loads[i].table_name, loads[i].sort_column,
                                  loads[i].sort_order, loads[i].search_query) :
        r.exc # "none"

\* the calls posted in this step report an error for the table of load i
ErrorPosted(i) ==
    /\ Len(callq') = Len(callq) + 1
    /\ callq'[Len(callq')].kind = "error"
    /\ callq'[Len(callq')].table_name = loads[i].table_name

\* C3: whatever exception the read or the filter/sort/slice of a load raises,
\* the worker catches it and posts an error report with the table name.
C3_EveryExceptionReported ==
    [][\A i \in 1..MaxInFlight :
        (WorkerCompute(i) /\ Raises(i)) => ErrorPosted(i)]_vars

\* C4: a worker thread that ends has handed exactly one final result (a page
\* to display, or an error or "no data" report) to the event loop.
C4_OneResultPerLoad ==
    [][\A i \in 1..MaxInFlight :
        ((WorkerCompute(i) \/ WorkerPost(i)) /\ Len(loads') < Len(loads))
            => Len(callq') = Len(callq) + 1]_vars

\* C8: a click on a column header takes unsorted to ascending on that column,
\* ascending on it to descending, and descending on it to unsorted (the sort
\* column cleared), never descending back to ascending.
C8_SortCycle ==
    [][\A c \in AllColumns : OnColumnClick(c) =>
        /\ sort_column = NoneStr => (sort_column' = c /\ sort_order' = TRUE)
        /\ (sort_column = c /\ sort_order) => (sort_column' = c /\ sort_order' = FALSE)
        /\ (sort_column = c /\ ~sort_order) =>
                (sort_column' = NoneStr /\ sort_order' = FALSE)]_vars

\* the third click has cleared the sort
C8_Witness ==
    /\ status = "Restored original table order"
    /\ sort_column = NoneStr
    /\ sort_order = FALSE
    /\ loads # <<>>

\* C9: with total_pages > 1 and the current page one of 1..total_pages, "next"
\* on the last page leads to page 1, "previous" on page 1 to the last page,
\* and on any other page either moves by exactly one page.
C9_PageWrap ==
    [][\A b \in BOOLEAN :
        (OnPageChange(b) /\ total_pages > 1 /\ current_page \in 1..total_pages) =>
            IF b
            THEN current_page' = (IF current_page = 1 THEN total_pages
                                  ELSE current_page - 1)
            ELSE current_page' = (IF current_page = total_pages THEN 1
                                  ELSE current_page + 1)]_vars

\* page 3 of 3 is requested
C9_Witness ==
    /\ total_pages = 3
    /\ current_page = 3
    /\ \E i \in 1..Len(loads) : loads[i].page_number = 3 /\ ~loads[i].superseded

\* this step changes the active table: a table switch or a file opened
ActiveTableChanges ==
    \/ \E t \in AllTables : OnSwitchTable(t)
    \/ \E f \in Files : OnOpen(f)

\* C10 as claimed: when the active table changes, sort_column, sort_order,
\* search_query, page_size and current_page are all reset to their defaults.
C10_AllViewStateReset ==
    [][ActiveTableChanges =>
        /\ sort_column' = NoneStr
        /\ sort_order' = FALSE
        /\ search_query' = NoneText
        /\ items_per_page' = ItemsPerPageDefault
        /\ current_page' = 1]_vars

\* C10 as amended: when the active table changes, sort_column, sort_order,
\* search_query and current_page are reset to their defaults, whatever they
\* held, and page_size (items_per_page) keeps its value.
C10_ViewStateResetButPageSize ==
    [][ActiveTableChanges =>
        /\ sort_column' = NoneStr
        /\ sort_order' = FALSE
        /\ search_query' = NoneText
        /\ current_page' = 1
        /\ items_per_page' = items_per_page]_vars

\* table B was just selected with 5 items per page chosen before
C10_Witness ==
    /\ table_switcher.selection = "B"
    /\ status = "Processing..."
    /\ items_per_page = 5
    /\ sort_column = NoneStr
    /\ search_query = NoneText
    /\ current_page = 1
    /\ \E i \in 1..Len(loads) : loads[i].table_name = "B" /\ loads[i].page_size = 5

\* the try block of load i ends without exception on a view of no rows
ZeroRows(i) ==
    \E r \in GetFilteredSortedDf(db, loads[i].table_name, loads[i].sort_column,
                                  loads[i].sort_order, loads[i].search_query) :
        r.exc = "none" /\ r.df.rows = <<>>

\* the calls posted in this step report "No data found" for the table of load i
NoDataPosted(i) ==
    /\ Len(callq') = Len(callq) + 1
    /\ callq'[Len(callq')].kind = "no data"
    /\ callq'[Len(callq')].table_name = loads[i].table_name

\* C12: a load whose view has no rows is reported as "No data found", a load
\* that raises is reported as "Error opening table", and neither is reported
\* as the other.
C12_NoDataAndErrorApart ==
    [][\A i \in 1..MaxInFlight : WorkerCompute(i) =>
        /\ ZeroRows(i) => (NoDataPosted(i) /\ ~ErrorPosted(i))
        /\ Raises(i) => (ErrorPosted(i) /\ ~NoDataPosted(i))]_vars

\* C13: when the error report of a failed load is applied the list is
\* cleared, the button disabled and the view state left as it was; and while
\* "Error opening table" stands in the status bar no page request changes
\* current_page or starts a load.
C13_NoPagingAfterFailure ==
    [][/\ (RunCalls /\ Head(callq).kind = "error") =>
            /\ list_ctrl'.columns = <<>> /\ list_ctrl'.rows = <<>>
            /\ ~next_page_button'
            /\ UNCHANGED <<db, table_switcher, view_state>>
       /\ \A b \in BOOLEAN :
            (status = "Error opening table") => ~OnPageChange(b)]_vars

\* the try block of load i ends without exception on a view that has rows,
\* none of them on the page asked for
PageBeyondLast(i) ==
    \E r \in GetFilteredSortedDf(db, loads[i].table_name, loads[i].sort_column,
                                  loads[i].sort_order, loads[i].search_query) :
        /\ r.exc = "none"
        /\ r.df.rows # <<>>
        /\ loads[i].page_number > TotalPages(Len(r.df.rows), loads[i].page_size)

\* C14: a page beyond the last page of a view that has rows gives an empty
\* page: the worker posts no error box and does not treat it as a failed load.
C14_PageBeyondLastIsEmptyPage ==
    [][\A i \in 1..MaxInFlight : (WorkerCompute(i) /\ PageBeyondLast(i)) =>
        /\ Len(callq') > Len(callq) => callq'[Len(callq')].box = "none"
        /\ ~NoDataPosted(i)
        /\ ~ErrorPosted(i)]_vars

\* C18: at most one load worker thread is alive at any time.
C18_AtMostOneWorker == Len(loads) <= 1

\* C19: a step of a worker thread leaves the state the interactive thread
\* owns (list control, sort indicator, button, status bar, total_pages) as it
\* is; only the calls the event loop runs change it.
C19_WorkerLeavesDisplayState ==
    [][(\E i \in 1..MaxInFlight : WorkerCompute(i) \/ WorkerPost(i)) =>
        UNCHANGED <<list_ctrl, sort_indicator, next_page_button, status, total_pages>>]_vars

\* C15: opening a file without tables fails the open: a message is shown and
\* the open source, the table list, the view state, the loads and the saved
\* column attributes stay as they were; so whenever a source is open its
\* table list, which the switcher shows, is not empty.
C15_EmptyTableListFailsOpen ==
    [][/\ \A f \in OpenFiles :
            (OnOpen(f) /\ TableNamesExc(f) = "none" /\ TableNames(f) = <<>>) =>
                /\ open_outcome' = "No tables found in database"
                /\ UNCHANGED <<db, table_switcher, view_state, list_ctrl, column_attr,
                               loads, callq>>
       /\ db' # NoneStr =>
            /\ TableNames(db') # <<>>
            /\ table_switcher'.items = TableNames(db')]_vars

\* empty.db was refused while page 2 of table A of shop.db, sorted, is shown
C15_Witness ==
    /\ open_outcome = "No tables found in database"
    /\ db = "shop.db"
    /\ table_switcher.items = <<"A", "B", "E">>
    /\ sort_column = "k"
    /\ items_per_page = 5
    /\ current_page = 2
    /\ list_ctrl.rows # <<>>
    /\ loads = <<>>

\* C16: opening a file whose extension is not a recognized kind fails with
\* a message shown to the user at once, the open source and the view staying
\* as they were.
C16_UnsupportedKindReported ==
    [][\A f \in OpenFiles : (OnOpen(f) /\ ~Supported(f)) =>
        /\ open_outcome' = "Unsupported file type"
        /\ UNCHANGED <<db, table_switcher, view_state, list_ctrl, loads, callq>>]_vars

\* the table list of file f has the name
HasTable(f, name) == \E j \in 1..Len(TableNames(f)) : TableNames(f)[j] = name

\* C21: a worker queries the source that was open when its load was requested.
\* The files of the model share no table name, so the request's table name
\* tells its source: the source a worker queries lists the table it asks for.
C21_WorkerReadsIssuingSource ==
    [][\A i \in 1..MaxInFlight : WorkerCompute(i) => HasTable(db, loads[i].table_name)]_vars

\* the view of the most recently issued request, which every handler makes
\* from the selected table and the view state it has just set: its outcomes
LatestView ==
    GetFilteredSortedDf(db, table_switcher.selection, sort_column, sort_order,
                        search_query)

\* C22: with a source open and no load in flight (no worker alive, no call
\* pending), total_pages is ceil(n / items_per_page) for the n > 0 rows of the
\* latest request's view, and holds no earlier view's count (it is 0) when
\* that load raised or found no rows.
C22_TotalPagesOfLatestView ==
    (db # NoneStr /\ loads = <<>> /\ callq = <<>>) =>
        \A r \in LatestView :
            IF r.exc = "none" /\ r.df.rows # <<>>
            THEN total_pages = TotalPages(Len(r.df.rows), items_per_page)
            ELSE total_pages = 0

\* the columns the list shows for table t of shop.db, <<>> if it has none to show
ColumnsOf(t) ==
    IF GetDf("shop.db", t).exc = "none" THEN GetDf("shop.db", t).df.columns ELSE <<>>

\* C23: what save_column_attr holds under the key of table T was taken from
\* the list while it showed T's columns: never the columns of another table
\* and never the cleared list without columns.
C23_ColumnAttrOfOwnTable ==
    \A t \in DOMAIN column_attr.tables :
        /\ column_attr.tables[t].col_widths = ColumnsOf(t)
        /\ column_attr.tables[t].col_widths # <<>>
        /\ column_attr.tables[t].col_order

\* the View State fields a column click, a search and a page-size change own
SortFields == <<sort_column, sort_order>>

\* the frame of the events that own one field: the other fields, and the page
\* count, are left alone by the handler's step
ColumnClickFrame == UNCHANGED <<search_query, items_per_page, total_pages>>

SearchFrame == UNCHANGED <<SortFields, items_per_page, total_pages>>

PageSizeFrame == UNCHANGED <<SortFields, search_query, total_pages>>

PageChangeFrame == UNCHANGED <<SortFields, search_query, items_per_page, total_pages>>

\* C24 as stated: every view event changes only its own View State field
\* and current_page; a column click, a search, a search-cancel and a
\* page-size change each set current_page to 1, and a page request changes
\* current_page only.
C24_ViewEventOwnFieldAndPageOne ==
    [][/\ \A c \in AllColumns : OnColumnClick(c) => (ColumnClickFrame /\ current_page' = 1)
       /\ \A q \in SearchTexts : OnSearch(q) => (SearchFrame /\ current_page' = 1)
       /\ OnSearchCancel => (SearchFrame /\ current_page' = 1)
       /\ \A n \in PageSizeOptions :
              OnSetItemsPerPage(n) => (PageSizeFrame /\ current_page' = 1)
       /\ \A b \in BOOLEAN : OnPageChange(b) => PageChangeFrame]_vars

\* C24, amended: as above, except that a page-size change sets current_page
\* to 1 only while a source is open; with no source open it changes
\* items_per_page alone and leaves current_page as it was.
C24_ViewEventOwnField ==
    [][/\ \A c \in AllColumns : OnColumnClick(c) => (ColumnClickFrame /\ current_page' = 1)
       /\ \A q \in SearchTexts : OnSearch(q) => (SearchFrame /\ current_page' = 1)
       /\ OnSearchCancel => (SearchFrame /\ current_page' = 1)
       /\ \A n \in PageSizeOptions :
              OnSetItemsPerPage(n) =>
                  /\ PageSizeFrame
                  /\ items_per_page' = n
                  /\ IF db # NoneStr THEN current_page' = 1 ELSE UNCHANGED current_page
       /\ \A b \in BOOLEAN : OnPageChange(b) => PageChangeFrame]_vars

\* a sorted, searched view at a chosen page size, back on page 1 of several
C24_Witness ==
    /\ db # NoneStr
    /\ sort_column # NoneStr
    /\ search_query # NoneText
    /\ items_per_page # ItemsPerPageDefault
    /\ current_page = 1
    /\ total_pages > 1


(***************************************************************************)
(* The pipeline on its own: every small table, query, sort and page size   *)
(***************************************************************************)
MaxRows == 3

MaxPageSize == 2

PipeTexts == { <<"a">>, <<"A", "b">>, <<"b">> }

PipeNums == { 1, 10 }

PipeColumns == <<"k", "v">>

PipeRowCells == { <<IntCell(n), StrCell(t)>> : n \in PipeNums, t \in PipeTexts }

PipeFrames ==
    { [columns |-> PipeColumns,
       rows |-> [i \in 1..Len(cs) |-> [idx |-> i, cells |-> cs[i]]]] :
      cs \in UNION { [1..n -> PipeRowCells] : n \in 0..MaxRows } }

PipeQueries == { NoneText, <<>>, <<"a">>, <<"B">>, <<"1">>, <<"a", "b">> }

PipeInit ==
    /\ FrameInit
    /\ overlaps = 0
    /\ cache = CacheStart
    /\ clip = ClipOff
    /\ \E df \in PipeFrames, q \in PipeQueries, c \in {NoneStr, "k", "v"},
       o \in BOOLEAN, p \in 1..MaxPageSize :
        pipe = [stage |-> "input", df |-> df, sort_column |-> c, sort_order |-> o,
                search_query |-> q, page_size |-> p,
                view |-> df.rows, page_number |-> 0, page |-> <<>>, pages |-> <<>>]

\* get_filtered_sorted_df on the input
PipeView ==
    /\ pipe.stage = "input"
    /\ \E r \in FilteredSorted(pipe.df, pipe.sort_column, pipe.sort_order,
                               pipe.search_query) :
        pipe' = [pipe EXCEPT !.stage = "view", !.view = r.df.rows]
    /\ UNCHANGED <<frame, cache, clip>>

\* the next page of the view, appended to the pages read so far
PipePage ==
    /\ pipe.stage = "view"
    /\ pipe.page_number < TotalPages(Len(pipe.view), pipe.page_size)
    /\ LET k == pipe.page_number + 1
           rows == PageRows(pipe.view, k, pipe.page_size)
       IN pipe' = [pipe EXCEPT !.page_number = k, !.page = rows,
                               !.pages = pipe.pages \o rows]
    /\ UNCHANGED <<frame, cache, clip>>

PipeNext == PipeView \/ PipePage

PipeSpec == PipeInit /\ [][PipeNext]_vars

(***************************************************************************)
(* Claims about the pipeline                                               *)
(***************************************************************************)
\* the least t with t * p >= n
CeilDiv(n, p) == CHOOSE t \in 0..n : t * p >= n /\ (t = 0 \/ (t - 1) * p < n)

\* C5: with total_pages = ceil(|S| / p), page k of the filtered/sorted
\* sequence S is S[(k-1)*p .. k*p) clipped to |S|, and pages 1..total_pages
\* concatenated in order are exactly S.
C5_PagesPartitionView ==
    pipe.stage = "view" =>
        LET n == Len(pipe.view)
            p == pipe.page_size
            k == pipe.page_number
        IN /\ TotalPages(n, p) = CeilDiv(n, p)
           /\ k >= 1 =>
                /\ Len(pipe.page) = Min(p, n - (k - 1) * p)
                /\ \A i \in 1..Len(pipe.page) : pipe.page[i] = pipe.view[(k - 1) * p + i]
           /\ k = CeilDiv(n, p) => pipe.pages = pipe.view

\* the spec's scenario: three rows, page_size 2, page 2 holds the third row
C5_Witness ==
    /\ pipe.stage = "view"
    /\ Len(pipe.view) = 3
    /\ pipe.page_size = 2
    /\ pipe.page_number = 2
    /\ pipe.page = <<pipe.view[3]>>
    /\ pipe.pages = pipe.view

SameLetter(a, b) == a = b \/ Upper(a) = b \/ a = Upper(b)

\* the row has a cell whose text form holds q at some offset, letter case aside
RowHolds(r, q) ==
    \E j \in 1..Len(r.cells) :
        LET t == Str(r.cells[j])
        IN \E k \in 0..(Len(t) - Len(q)) :
            \A i \in 1..Len(q) : SameLetter(t[k + i], q[i])

ViewLabels == { pipe.view[i].idx : i \in 1..Len(pipe.view) }

\* C6: get_filtered_sorted_df returns exactly the rows that hold the query as
\* a case-insensitive substring of some cell's text (each once, with its own
\* cells), and for the empty query every row of the table; unsorted, in the
\* table's order.
C6_SearchKeepsExactlyMatches ==
    pipe.stage = "view" =>
        LET q == pipe.search_query
            all == 1..Len(pipe.df.rows)
            kept == IF q = NoneText \/ q = <<>> THEN all
                    ELSE { i \in all : RowHolds(pipe.df.rows[i], q) }
        IN /\ ViewLabels = kept
           /\ Len(pipe.view) = Cardinality(kept)
           /\ \A i \in 1..Len(pipe.view) : pipe.view[i] = pipe.df.rows[pipe.view[i].idx]
           /\ pipe.sort_column = NoneStr =>
                \A i, j \in 1..Len(pipe.view) :
                    i < j => pipe.view[i].idx < pipe.view[j].idx
           /\ (q = <<>> /\ pipe.sort_column = NoneStr) => pipe.view = pipe.df.rows

\* the query "B" keeps the row whose text is "Ab" and drops the row "a"
C6_Witness ==
    /\ pipe.stage = "view"
    /\ pipe.search_query = <<"B">>
    /\ Len(pipe.df.rows) = 3
    /\ pipe.df.rows[1].cells[2] = StrCell(<<"a">>)
    /\ pipe.df.rows[2].cells[2] = StrCell(<<"A", "b">>)
    /\ pipe.df.rows[3].cells[2] = StrCell(<<"a">>)
    /\ ViewLabels = {2}

\* C7: rows of the filtered sequence with equal sort keys keep their relative
\* order in the sorted result, ascending and descending.
C7_SortStable ==
    (pipe.stage = "view" /\ pipe.sort_column # NoneStr) =>
        LET c == ColumnIndex(pipe.df.columns, pipe.sort_column)
        IN \A i, j \in 1..Len(pipe.view) :
            (i < j /\ pipe.view[i].cells[c] = pipe.view[j].cells[c])
                => pipe.view[i].idx < pipe.view[j].idx

(***************************************************************************)
(* The two memos on their own: functools.lru_cache(maxsize=1) on get_df    *)
(* and on get_filtered_sorted_df, called by the worker threads that        *)
(* load_table_data starts and by the interactive thread (the Data menu)    *)
(***************************************************************************)
CacheFile == "shop.db"

MakeKeyNoQuery(f, table_name, sortcol, sortord, query) ==
    [file |-> f, table_name |-> table_name, sort_column |-> sortcol,
     sort_order |-> sortord, search_query |-> NoneText]

\* the lru_cache key of get_filtered_sorted_df: self and the four keyword
\* arguments
MakeKey(f, table_name, sortcol, sortord, query) ==
    [file |-> f, table_name |-> table_name, sort_column |-> sortcol,
     sort_order |-> sortord, search_query |-> query]

\* the lru_cache key of get_df: self and table_name
DfKey(k) == MakeKey(k.file, k.table_name, NoneStr, FALSE, NoneText)

\* the requests the handlers make on the open connection
CacheKeys ==
    { [file |-> CacheFile, table_name |-> t, sort_column |-> c.sort_column,
       sort_order |-> c.sort_order, search_query |-> q] :
        t \in { "A", "B", "E" },
        c \in { [sort_column |-> NoneStr, sort_order |-> FALSE],
                [sort_column |-> "k", sort_order |-> FALSE] },
        q \in { NoneText, <<"a">> } }

LruHit(entries, key) == \E i \in 1..Len(entries) : entries[i].key = key

LruGet(entries, key) ==
    entries[CHOOSE i \in 1..Len(entries) : entries[i].key = key].val

\* the cache after the wrapper has the result of a miss: unchanged if the
\* key was stored meanwhile, else the oldest entry makes room when full
LruStore(entries, key, val, by) ==
    IF LruHit(entries, key) THEN entries
    ELSE IF Len(entries) >= Maxsize
    THEN Tail(entries) \o << [key |-> key, val |-> val, by |-> by] >>
    ELSE Append(entries, [key |-> key, val |-> val, by |-> by])

\* load_table_data with the arguments of key k: the worker thread is started
CacheRequest(t, k) ==
    /\ cache.threads[t].pc \in { "idle", "done" }
    /\ cache' = [cache EXCEPT !.selection = k.table_name,
                              !.threads[t] = [IdleThread EXCEPT !.pc = "called",
                                                                !.key = k]]
    /\ UNCHANGED <<frame, pipe, clip>>

\* the worker calls get_filtered_sorted_df: a hit returns the stored frame,
\* a miss enters the function
CacheViewCall(t) ==
    /\ cache.threads[t].pc = "called"
    /\ LET th == cache.threads[t]
           key == MakeKey(th.key.file, th.key.table_name, th.key.sort_column,
                          th.key.sort_order, th.key.search_query)
       IN cache' = IF LruHit(cache.view, key)
                   THEN [cache EXCEPT !.threads[t].pc = "done",
                                      !.threads[t].out = LruGet(cache.view, key),
                                      !.threads[t].via = "hit"]
                   ELSE [cache EXCEPT !.threads[t].pc = "in view"]
    /\ UNCHANGED <<frame, pipe, clip>>

\* get_filtered_sorted_df calls get_df: a hit returns the stored table, a
\* miss starts reading it
CacheDfCall(t) ==
    /\ cache.threads[t].pc = "in view"
    /\ LET key == DfKey(cache.threads[t].key)
       IN cache' = IF LruHit(cache.df, key)
                   THEN [cache EXCEPT !.threads[t].pc = "have df",
                                      !.threads[t].df = LruGet(cache.df, key)]
                   ELSE [cache EXCEPT !.threads[t].pc = "reading"]
    /\ UNCHANGED <<frame, pipe, clip>>

\* get_df has read the table and the wrapper stores it; an exception is not
\* stored and leaves get_filtered_sorted_df too
CacheDfStore(t) ==
    /\ cache.threads[t].pc = "reading"
    /\ LET th == cache.threads[t]
           r == GetDf(th.key.file, th.key.table_name)
       IN cache' = IF r.exc # "none"
                   THEN [cache EXCEPT !.threads[t].pc = "done",
                                      !.threads[t].exc = r.exc]
                   ELSE [cache EXCEPT !.threads[t].pc = "have df",
                                      !.threads[t].df = r.df,
                                      !.df = LruStore(cache.df, DfKey(th.key), r.df,
                                                      "worker")]
    /\ UNCHANGED <<frame, pipe, clip>>

\* get_filtered_sorted_df filters and sorts the table and the wrapper stores
\* the view
CacheViewStore(t) ==
    /\ cache.threads[t].pc = "have df"
    /\ LET th == cache.threads[t]
           key == MakeKey(th.key.file, th.key.table_name, th.key.sort_column,
                          th.key.sort_order, th.key.search_query)
       IN \E r \in FilteredSorted(th.df, th.key.sort_column, th.key.sort_order,
                                   th.key.search_query) :
            cache' = IF r.exc # "none"
                     THEN [cache EXCEPT !.threads[t].pc = "done",
                                        !.threads[t].exc = r.exc,
                                        !.threads[t].df = EmptyFrame]
                     ELSE [cache EXCEPT !.threads[t].pc = "done",
                                        !.threads[t].out = r.df,
                                        !.threads[t].via = "computed",
                                        !.threads[t].df = EmptyFrame,
                                        !.view = LruStore(cache.view, key, r.df,
                                                          "worker")]
    /\ UNCHANGED <<frame, pipe, clip>>

\* on_data_menu -> show_column_selection_dialog: the interactive thread calls
\* get_df on the selected table; on a miss it reads the table itself
CacheDataMenu ==
    /\ cache.selection # NoneStr
    /\ LET key == DfKey(MakeKey(CacheFile, cache.selection, NoneStr, FALSE, NoneText))
           r == GetDf(CacheFile, cache.selection)
       IN /\ ~LruHit(cache.df, key)
          /\ r.exc = "none"
          /\ cache' = [cache EXCEPT !.df = LruStore(cache.df, key, r.df, "interactive")]
    /\ UNCHANGED <<frame, pipe, clip>>

CacheInit ==
    FrameInit /\ overlaps = 0 /\ pipe = PipeOff /\ cache = CacheStart /\ clip = ClipOff

CacheNext ==
    \/ \E t \in 1..MaxCacheThreads, k \in CacheKeys : CacheRequest(t, k)
    \/ \E t \in 1..MaxCacheThreads : CacheViewCall(t)
    \/ \E t \in 1..MaxCacheThreads : CacheDfCall(t)
    \/ \E t \in 1..MaxCacheThreads : CacheDfStore(t)
    \/ \E t \in 1..MaxCacheThreads : CacheViewStore(t)
    \/ CacheDataMenu

CacheSpec == CacheInit /\ [][CacheNext]_vars

\* what get_filtered_sorted_df computes for key k on the file as it is
ViewOf(k) ==
    { r.df : r \in { x \in GetFilteredSortedDf(k.file, k.table_name, k.sort_column,
                                                k.sort_order, k.search_query) :
                     x.exc = "none" } }

\* C11: a request is served the rows of its own (table, sort_column,
\* sort_order, search_query), from the memo or recomputed, so that two requests
\* with the same tuple get the identical row sequence and a request differing
\* in any input never gets the previous tuple's rows; the memo holds at most
\* one entry, and after a request returned it is that request's.
C11_OneEntryMemo ==
    [][\A t \in 1..MaxCacheThreads :
        ((CacheViewCall(t) \/ CacheViewStore(t))
            /\ cache'.threads[t].pc = "done" /\ cache'.threads[t].exc = "none") =>
            /\ ViewOf(cache.threads[t].key) = { cache'.threads[t].out }
            /\ cache'.view = << [key |-> cache.threads[t].key,
                                 val |-> cache'.threads[t].out, by |-> "worker"] >>
            /\ Len(cache'.df) <= 1]_vars

\* the second request for the rows of A holding "a" is served from the memo
\* what the first computed, after the memo held the unfiltered view
C11_Witness ==
    /\ cache.threads[1].pc = "done"
    /\ cache.threads[2].pc = "done"
    /\ cache.threads[1].key.table_name = "A"
    /\ cache.threads[1].key.search_query = <<"a">>
    /\ cache.threads[2].key = cache.threads[1].key
    /\ cache.threads[1].via = "computed"
    /\ cache.threads[2].via = "hit"
    /\ cache.threads[2].out = cache.threads[1].out
    /\ Len(cache.threads[1].out.rows) = 6

\* C20: the stored table of get_df and the stored view of
\* get_filtered_sorted_df are put there by load workers only, never by the
\* interactive thread, and no two threads are at one time computing what
\* they will store in the same memo.
C20_OnlyWorkersFillOneAtATime ==
    /\ \A i \in 1..Len(cache.df) : cache.df[i].by = "worker"
    /\ \A i \in 1..Len(cache.view) : cache.view[i].by = "worker"
    /\ Cardinality({ t \in 1..MaxCacheThreads : cache.threads[t].pc = "reading" }) <= 1
    /\ Cardinality({ t \in 1..MaxCacheThreads :
                        cache.threads[t].pc \in { "in view", "reading", "have df" } }) <= 1

(***************************************************************************)
(* Copy on its own: display_table fills the list and restores the saved    *)
(* column order, the user drags column headers and selects rows, on_copy   *)
(* writes the clipboard                                                    *)
(***************************************************************************)
MaxClipRows == 2

ClipColumns == <<"k", "v">>

ClipTexts == { <<"1">>, <<"a", "b">> }

\* the rows display_table is given: every cell already a text
ClipTables ==
    UNION { [1..n -> [1..Len(ClipColumns) -> ClipTexts]] : n \in 0..MaxClipRows }

\* the orders GetColumnsOrder can return: at each place the index of the
\* column shown there
ClipOrders == { <<1, 2>>, <<2, 1>> }

IdentityOrder(n) == [p \in 1..n |-> p]

\* sep.join(texts)
RECURSIVE Join(_, _)
Join(texts, sep) ==
    IF texts = <<>> THEN <<>>
    ELSE IF Len(texts) = 1 THEN texts[1]
    ELSE texts[1] \o <<sep>> \o Join(Tail(texts), sep)

\* GetFirstSelected / GetNextSelected: the selected items, from the top
SelectedItems(selected, count) ==
    SelectSeq([i \in 1..count |-> i], LAMBDA i : i \in selected)

ItemTextsAsShown(list, item) ==
    [p \in 1..Len(list.columns) |-> list.rows[item][list.order[p]]]

\* [GetItem(item, col).GetText() for col in range(GetColumnCount())]
ItemTexts(list, item) ==
    [col \in 1..Len(list.columns) |-> list.rows[item][col]]

\* "\n".join(["\t".join(row) for row in data_to_copy])
CopyText(list, selected) ==
    LET items == SelectedItems(selected, Len(list.rows))
    IN Join([n \in 1..Len(items) |-> Join(ItemTexts(list, items[n]), "\t")], "\n")

ClipInit ==
    /\ FrameInit
    /\ overlaps = 0
    /\ pipe = PipeOff
    /\ cache = CacheStart
    /\ \E rows \in ClipTables, saved \in ClipOrders \cup { <<>> } :
        clip = [stage |-> "input", rows |-> rows, col_order |-> saved,
                list |-> [columns |-> <<>>, rows |-> <<>>, order |-> <<>>],
                selected |-> {}, clipboard |-> NoneText, status |-> ""]

\* display_table(rows, columns): ClearAll, the columns and the items are
\* inserted, then the saved column order of the table, if any, is set
ClipDisplay ==
    /\ clip.stage = "input"
    /\ clip' = [clip EXCEPT
            !.stage = "shown",
            !.list = [columns |-> ClipColumns, rows |-> clip.rows,
                      order |-> IF clip.col_order # <<>> THEN clip.col_order
                                ELSE IdentityOrder(Len(ClipColumns))]]
    /\ UNCHANGED <<frame, pipe, cache>>

\* the user drags a column header to another place
ClipDrag(order) ==
    /\ clip.stage = "shown"
    /\ order # clip.list.order
    /\ clip' = [clip EXCEPT !.list.order = order]
    /\ UNCHANGED <<frame, pipe, cache>>

\* the user selects or deselects item i
ClipSelect(i) ==
    /\ clip.stage = "shown"
    /\ i \in 1..Len(clip.list.rows)
    /\ clip' = [clip EXCEPT !.selected = IF i \in clip.selected
                                         THEN clip.selected \ {i}
                                         ELSE clip.selected \cup {i}]
    /\ UNCHANGED <<frame, pipe, cache>>

\* on_copy; opened is what wx.TheClipboard.Open() returns
ClipCopy(opened) ==
    /\ clip.stage = "shown"
    /\ clip' = IF clip.selected = {}
               THEN [clip EXCEPT !.stage = "copied", !.status = "No rows selected"]
               ELSE IF opened
               THEN [clip EXCEPT !.stage = "copied", !.status = "Copied rows to clipboard",
                                 !.clipboard = CopyText(clip.list, clip.selected)]
               ELSE [clip EXCEPT !.stage = "copied",
                                 !.status = "Error copying to clipboard"]
    /\ UNCHANGED <<frame, pipe, cache>>

ClipNext ==
    \/ ClipDisplay
    \/ \E order \in ClipOrders : ClipDrag(order)
    \/ \E i \in 1..MaxClipRows : ClipSelect(i)
    \/ \E opened \in BOOLEAN : ClipCopy(opened)

CopySpec == ClipInit /\ [][ClipNext]_vars

\* C17: the text put on the clipboard has one line per selected row, from
\* the top, and on each line the row's cells joined by tabs in the order the
\* columns are shown, whether the user dragged them or display_table restored
\* the table's saved order.
C17_CopyInDisplayOrder ==
    (clip.stage = "copied" /\ clip.status = "Copied rows to clipboard") =>
        LET items == SelectedItems(clip.selected, Len(clip.list.rows))
        IN clip.clipboard =
            Join([n \in 1..Len(items) |->
                    Join(ItemTextsAsShown(clip.list, items[n]), "\t")], "\n")

====
